---- MODULE Spec2Model ----
(***************************************************************************)
(* A model of bcrypt-only (src/src/lib.rs): the Salt and WorkFactor types, *)
(* the Blowfish primitives, the key cycler, the three expand-state         *)
(* procedures and the bcrypt driver.                                       *)
(*                                                                         *)
(* Representation.  TLC's integers are 32-bit signed, so a u32 of the      *)
(* program is held as a pair <<hi, lo>> of two 16-bit limbs, its value     *)
(* being hi * 2^16 + lo.  Arrays keep the program's 0-based indices: an    *)
(* array of n elements is a function on 0 .. n-1.                          *)
(***************************************************************************)
EXTENDS Integers, Sequences, FiniteSets, TLC

(***************************************************************************)
(* u32 arithmetic on limbs                                                 *)
(***************************************************************************)
Byte == 0 .. 255

\* x ^ y for two 4-bit values, tabulated: row x + 1, column y + 1
XorNibble ==
  <<
    << 0,  1,  2,  3,  4,  5,  6,  7,  8,  9, 10, 11, 12, 13, 14, 15>>,
    << 1,  0,  3,  2,  5,  4,  7,  6,  9,  8, 11, 10, 13, 12, 15, 14>>,
    << 2,  3,  0,  1,  6,  7,  4,  5, 10, 11,  8,  9, 14, 15, 12, 13>>,
    << 3,  2,  1,  0,  7,  6,  5,  4, 11, 10,  9,  8, 15, 14, 13, 12>>,
    << 4,  5,  6,  7,  0,  1,  2,  3, 12, 13, 14, 15,  8,  9, 10, 11>>,
    << 5,  4,  7,  6,  1,  0,  3,  2, 13, 12, 15, 14,  9,  8, 11, 10>>,
    << 6,  7,  4,  5,  2,  3,  0,  1, 14, 15, 12, 13, 10, 11,  8,  9>>,
    << 7,  6,  5,  4,  3,  2,  1,  0, 15, 14, 13, 12, 11, 10,  9,  8>>,
    << 8,  9, 10, 11, 12, 13, 14, 15,  0,  1,  2,  3,  4,  5,  6,  7>>,
    << 9,  8, 11, 10, 13, 12, 15, 14,  1,  0,  3,  2,  5,  4,  7,  6>>,
    <<10, 11,  8,  9, 14, 15, 12, 13,  2,  3,  0,  1,  6,  7,  4,  5>>,
    <<11, 10,  9,  8, 15, 14, 13, 12,  3,  2,  1,  0,  7,  6,  5,  4>>,
    <<12, 13, 14, 15,  8,  9, 10, 11,  4,  5,  6,  7,  0,  1,  2,  3>>,
    <<13, 12, 15, 14,  9,  8, 11, 10,  5,  4,  7,  6,  1,  0,  3,  2>>,
    <<14, 15, 12, 13, 10, 11,  8,  9,  6,  7,  4,  5,  2,  3,  0,  1>>,
    <<15, 14, 13, 12, 11, 10,  9,  8,  7,  6,  5,  4,  3,  2,  1,  0>>
  >>

Xor4(a, b) == XorNibble[a + 1][b + 1]

\* u8 ^ u8, tabulated from the nibbles
XorByte == [a \in Byte |-> [b \in Byte |->
              Xor4(a \div 16, b \div 16) * 16 + Xor4(a % 16, b % 16)]]

\* the limbs and the u32 values
Limb == 0 .. 65535
Word == Limb \X Limb

Xor16[a \in Limb, b \in Limb] ==
  XorByte[a \div 256][b \div 256] * 256 + XorByte[a % 256][b % 256]

\* u32 ^ u32
Xor[v \in Word, w \in Word] == <<Xor16[v[1], w[1]], Xor16[v[2], w[2]]>>

\* u32::wrapping_add: the low limbs' carry goes into the high limbs, whose
\* own carry is dropped
wrapping_add[v \in Word, w \in Word] ==
  <<(v[1] + w[1] + ((v[2] + w[2]) \div 65536)) % 65536, (v[2] + w[2]) % 65536>>

\* u32::to_be_bytes: the four bytes, most significant first
to_be_bytes[w \in Word] == <<w[1] \div 256, w[1] % 256, w[2] \div 256, w[2] % 256>>

\* u32::from_be_bytes / u32_from_be_bytes / the shifts of read_u32_be:
\* b0 << 24 | b1 << 16 | b2 << 8 | b3
from_be_bytes(b0, b1, b2, b3) == <<b0 * 256 + b1, b2 * 256 + b3>>

ZeroWord == <<0, 0>>

\* a small number as a u32
U32(n) == <<n \div 65536, n % 65536>>

\* u32 < u32, u32 <= u32
Lt(v, w) == v[1] < w[1] \/ (v[1] = w[1] /\ v[2] < w[2])
Le(v, w) == v = w \/ Lt(v, w)

\* u32 + 1 (of a value below u32::MAX)
Inc(v) == IF v[2] = 65535 THEN <<v[1] + 1, 0>> ELSE <<v[1], v[2] + 1>>

\* 1_u32 << n, the shift amount taken modulo 32
Shl1(n) ==
  LET m == n % 32
  IN  IF m < 16 THEN <<0, 2 ^ m>> ELSE <<2 ^ (m - 16), 0>>

\* Evaluate x, then apply F to it.  (TLC passes an operator's arguments
\* unevaluated; a value drawn from a singleton set is evaluated, which keeps
\* the deferred work of a loop from nesting.)
Eval(F(_), x) == CHOOSE y \in {F(v) : v \in {x}} : TRUE

(***************************************************************************)
(* Program constants                                                       *)
(***************************************************************************)
KEY_SIZE_MAX == 72
SALT_SIZE == 16
HASH_SIZE == 23
BLF_N == 16

\* a Rust array literal, as a function on 0 .. n-1
Array(seq) == [i \in 0 .. Len(seq) - 1 |-> seq[i + 1]]

SBOX_INIT_0 ==
  <<
    <<\hd131, \h0ba6>>, <<\h98df, \hb5ac>>, <<\h2ffd, \h72db>>, <<\hd01a, \hdfb7>>,
    <<\hb8e1, \hafed>>, <<\h6a26, \h7e96>>, <<\hba7c, \h9045>>, <<\hf12c, \h7f99>>,
    <<\h24a1, \h9947>>, <<\hb391, \h6cf7>>, <<\h0801, \hf2e2>>, <<\h858e, \hfc16>>,
    <<\h6369, \h20d8>>, <<\h7157, \h4e69>>, <<\ha458, \hfea3>>, <<\hf493, \h3d7e>>,
    <<\h0d95, \h748f>>, <<\h728e, \hb658>>, <<\h718b, \hcd58>>, <<\h8215, \h4aee>>,
    <<\h7b54, \ha41d>>, <<\hc25a, \h59b5>>, <<\h9c30, \hd539>>, <<\h2af2, \h6013>>,
    <<\hc5d1, \hb023>>, <<\h2860, \h85f0>>, <<\hca41, \h7918>>, <<\hb8db, \h38ef>>,
    <<\h8e79, \hdcb0>>, <<\h603a, \h180e>>, <<\h6c9e, \h0e8b>>, <<\hb01e, \h8a3e>>,
    <<\hd715, \h77c1>>, <<\hbd31, \h4b27>>, <<\h78af, \h2fda>>, <<\h5560, \h5c60>>,
    <<\he655, \h25f3>>, <<\haa55, \hab94>>, <<\h5748, \h9862>>, <<\h63e8, \h1440>>,
    <<\h55ca, \h396a>>, <<\h2aab, \h10b6>>, <<\hb4cc, \h5c34>>, <<\h1141, \he8ce>>,
    <<\ha154, \h86af>>, <<\h7c72, \he993>>, <<\hb3ee, \h1411>>, <<\h636f, \hbc2a>>,
    <<\h2ba9, \hc55d>>, <<\h7418, \h31f6>>, <<\hce5c, \h3e16>>, <<\h9b87, \h931e>>,
    <<\hafd6, \hba33>>, <<\h6c24, \hcf5c>>, <<\h7a32, \h5381>>, <<\h2895, \h8677>>,
    <<\h3b8f, \h4898>>, <<\h6b4b, \hb9af>>, <<\hc4bf, \he81b>>, <<\h6628, \h2193>>,
    <<\h61d8, \h09cc>>, <<\hfb21, \ha991>>, <<\h487c, \hac60>>, <<\h5dec, \h8032>>,
    <<\hef84, \h5d5d>>, <<\he985, \h75b1>>, <<\hdc26, \h2302>>, <<\heb65, \h1b88>>,
    <<\h2389, \h3e81>>, <<\hd396, \hacc5>>, <<\h0f6d, \h6ff3>>, <<\h83f4, \h4239>>,
    <<\h2e0b, \h4482>>, <<\ha484, \h2004>>, <<\h69c8, \hf04a>>, <<\h9e1f, \h9b5e>>,
    <<\h21c6, \h6842>>, <<\hf6e9, \h6c9a>>, <<\h670c, \h9c61>>, <<\habd3, \h88f0>>,
    <<\h6a51, \ha0d2>>, <<\hd854, \h2f68>>, <<\h960f, \ha728>>, <<\hab51, \h33a3>>,
    <<\h6eef, \h0b6c>>, <<\h137a, \h3be4>>, <<\hba3b, \hf050>>, <<\h7efb, \h2a98>>,
    <<\ha1f1, \h651d>>, <<\h39af, \h0176>>, <<\h66ca, \h593e>>, <<\h8243, \h0e88>>,
    <<\h8cee, \h8619>>, <<\h456f, \h9fb4>>, <<\h7d84, \ha5c3>>, <<\h3b8b, \h5ebe>>,
    <<\he06f, \h75d8>>, <<\h85c1, \h2073>>, <<\h401a, \h449f>>, <<\h56c1, \h6aa6>>,
    <<\h4ed3, \haa62>>, <<\h363f, \h7706>>, <<\h1bfe, \hdf72>>, <<\h429b, \h023d>>,
    <<\h37d0, \hd724>>, <<\hd00a, \h1248>>, <<\hdb0f, \head3>>, <<\h49f1, \hc09b>>,
    <<\h0753, \h72c9>>, <<\h8099, \h1b7b>>, <<\h25d4, \h79d8>>, <<\hf6e8, \hdef7>>,
    <<\he3fe, \h501a>>, <<\hb679, \h4c3b>>, <<\h976c, \he0bd>>, <<\h04c0, \h06ba>>,
    <<\hc1a9, \h4fb6>>, <<\h409f, \h60c4>>, <<\h5e5c, \h9ec2>>, <<\h196a, \h2463>>,
    <<\h68fb, \h6faf>>, <<\h3e6c, \h53b5>>, <<\h1339, \hb2eb>>, <<\h3b52, \hec6f>>,
    <<\h6dfc, \h511f>>, <<\h9b30, \h952c>>, <<\hcc81, \h4544>>, <<\haf5e, \hbd09>>,
    <<\hbee3, \hd004>>, <<\hde33, \h4afd>>, <<\h660f, \h2807>>, <<\h192e, \h4bb3>>,
    <<\hc0cb, \ha857>>, <<\h45c8, \h740f>>, <<\hd20b, \h5f39>>, <<\hb9d3, \hfbdb>>,
    <<\h5579, \hc0bd>>, <<\h1a60, \h320a>>, <<\hd6a1, \h00c6>>, <<\h402c, \h7279>>,
    <<\h679f, \h25fe>>, <<\hfb1f, \ha3cc>>, <<\h8ea5, \he9f8>>, <<\hdb32, \h22f8>>,
    <<\h3c75, \h16df>>, <<\hfd61, \h6b15>>, <<\h2f50, \h1ec8>>, <<\had05, \h52ab>>,
    <<\h323d, \hb5fa>>, <<\hfd23, \h8760>>, <<\h5331, \h7b48>>, <<\h3e00, \hdf82>>,
    <<\h9e5c, \h57bb>>, <<\hca6f, \h8ca0>>, <<\h1a87, \h562e>>, <<\hdf17, \h69db>>,
    <<\hd542, \ha8f6>>, <<\h287e, \hffc3>>, <<\hac67, \h32c6>>, <<\h8c4f, \h5573>>,
    <<\h695b, \h27b0>>, <<\hbbca, \h58c8>>, <<\he1ff, \ha35d>>, <<\hb8f0, \h11a0>>,
    <<\h10fa, \h3d98>>, <<\hfd21, \h83b8>>, <<\h4afc, \hb56c>>, <<\h2dd1, \hd35b>>,
    <<\h9a53, \he479>>, <<\hb6f8, \h4565>>, <<\hd28e, \h49bc>>, <<\h4bfb, \h9790>>,
    <<\he1dd, \hf2da>>, <<\ha4cb, \h7e33>>, <<\h62fb, \h1341>>, <<\hcee4, \hc6e8>>,
    <<\hef20, \hcada>>, <<\h3677, \h4c01>>, <<\hd07e, \h9efe>>, <<\h2bf1, \h1fb4>>,
    <<\h95db, \hda4d>>, <<\hae90, \h9198>>, <<\heaad, \h8e71>>, <<\h6b93, \hd5a0>>,
    <<\hd08e, \hd1d0>>, <<\hafc7, \h25e0>>, <<\h8e3c, \h5b2f>>, <<\h8e75, \h94b7>>,
    <<\h8ff6, \he2fb>>, <<\hf212, \h2b64>>, <<\h8888, \hb812>>, <<\h900d, \hf01c>>,
    <<\h4fad, \h5ea0>>, <<\h688f, \hc31c>>, <<\hd1cf, \hf191>>, <<\hb3a8, \hc1ad>>,
    <<\h2f2f, \h2218>>, <<\hbe0e, \h1777>>, <<\hea75, \h2dfe>>, <<\h8b02, \h1fa1>>,
    <<\he5a0, \hcc0f>>, <<\hb56f, \h74e8>>, <<\h18ac, \hf3d6>>, <<\hce89, \he299>>,
    <<\hb4a8, \h4fe0>>, <<\hfd13, \he0b7>>, <<\h7cc4, \h3b81>>, <<\hd2ad, \ha8d9>>,
    <<\h165f, \ha266>>, <<\h8095, \h7705>>, <<\h93cc, \h7314>>, <<\h211a, \h1477>>,
    <<\he6ad, \h2065>>, <<\h77b5, \hfa86>>, <<\hc754, \h42f5>>, <<\hfb9d, \h35cf>>,
    <<\hebcd, \haf0c>>, <<\h7b3e, \h89a0>>, <<\hd641, \h1bd3>>, <<\hae1e, \h7e49>>,
    <<\h0025, \h0e2d>>, <<\h2071, \hb35e>>, <<\h2268, \h00bb>>, <<\h57b8, \he0af>>,
    <<\h2464, \h369b>>, <<\hf009, \hb91e>>, <<\h5563, \h911d>>, <<\h59df, \ha6aa>>,
    <<\h78c1, \h4389>>, <<\hd95a, \h537f>>, <<\h207d, \h5ba2>>, <<\h02e5, \hb9c5>>,
    <<\h8326, \h0376>>, <<\h6295, \hcfa9>>, <<\h11c8, \h1968>>, <<\h4e73, \h4a41>>,
    <<\hb347, \h2dca>>, <<\h7b14, \ha94a>>, <<\h1b51, \h0052>>, <<\h9a53, \h2915>>,
    <<\hd60f, \h573f>>, <<\hbc9b, \hc6e4>>, <<\h2b60, \ha476>>, <<\h81e6, \h7400>>,
    <<\h08ba, \h6fb5>>, <<\h571b, \he91f>>, <<\hf296, \hec6b>>, <<\h2a0d, \hd915>>,
    <<\hb663, \h6521>>, <<\he7b9, \hf9b6>>, <<\hff34, \h052e>>, <<\hc585, \h5664>>,
    <<\h53b0, \h2d5d>>, <<\ha99f, \h8fa1>>, <<\h08ba, \h4799>>, <<\h6e85, \h076a>>
  >>

SBOX_INIT_1 ==
  <<
    <<\h4b7a, \h70e9>>, <<\hb5b3, \h2944>>, <<\hdb75, \h092e>>, <<\hc419, \h2623>>,
    <<\had6e, \ha6b0>>, <<\h49a7, \hdf7d>>, <<\h9cee, \h60b8>>, <<\h8fed, \hb266>>,
    <<\hecaa, \h8c71>>, <<\h699a, \h17ff>>, <<\h5664, \h526c>>, <<\hc2b1, \h9ee1>>,
    <<\h1936, \h02a5>>, <<\h7509, \h4c29>>, <<\ha059, \h1340>>, <<\he418, \h3a3e>>,
    <<\h3f54, \h989a>>, <<\h5b42, \h9d65>>, <<\h6b8f, \he4d6>>, <<\h99f7, \h3fd6>>,
    <<\ha1d2, \h9c07>>, <<\hefe8, \h30f5>>, <<\h4d2d, \h38e6>>, <<\hf025, \h5dc1>>,
    <<\h4cdd, \h2086>>, <<\h8470, \heb26>>, <<\h6382, \he9c6>>, <<\h021e, \hcc5e>>,
    <<\h0968, \h6b3f>>, <<\h3eba, \hefc9>>, <<\h3c97, \h1814>>, <<\h6b6a, \h70a1>>,
    <<\h687f, \h3584>>, <<\h52a0, \he286>>, <<\hb79c, \h5305>>, <<\haa50, \h0737>>,
    <<\h3e07, \h841c>>, <<\h7fde, \hae5c>>, <<\h8e7d, \h44ec>>, <<\h5716, \hf2b8>>,
    <<\hb03a, \hda37>>, <<\hf050, \h0c0d>>, <<\hf01c, \h1f04>>, <<\h0200, \hb3ff>>,
    <<\hae0c, \hf51a>>, <<\h3cb5, \h74b2>>, <<\h2583, \h7a58>>, <<\hdc09, \h21bd>>,
    <<\hd191, \h13f9>>, <<\h7ca9, \h2ff6>>, <<\h9432, \h4773>>, <<\h22f5, \h4701>>,
    <<\h3ae5, \he581>>, <<\h37c2, \hdadc>>, <<\hc8b5, \h7634>>, <<\h9af3, \hdda7>>,
    <<\ha944, \h6146>>, <<\h0fd0, \h030e>>, <<\hecc8, \hc73e>>, <<\ha475, \h1e41>>,
    <<\he238, \hcd99>>, <<\h3bea, \h0e2f>>, <<\h3280, \hbba1>>, <<\h183e, \hb331>>,
    <<\h4e54, \h8b38>>, <<\h4f6d, \hb908>>, <<\h6f42, \h0d03>>, <<\hf60a, \h04bf>>,
    <<\h2cb8, \h1290>>, <<\h2497, \h7c79>>, <<\h5679, \hb072>>, <<\hbcaf, \h89af>>,
    <<\hde9a, \h771f>>, <<\hd993, \h0810>>, <<\hb38b, \hae12>>, <<\hdccf, \h3f2e>>,
    <<\h5512, \h721f>>, <<\h2e6b, \h7124>>, <<\h501a, \hdde6>>, <<\h9f84, \hcd87>>,
    <<\h7a58, \h4718>>, <<\h7408, \hda17>>, <<\hbc9f, \h9abc>>, <<\he94b, \h7d8c>>,
    <<\hec7a, \hec3a>>, <<\hdb85, \h1dfa>>, <<\h6309, \h4366>>, <<\hc464, \hc3d2>>,
    <<\hef1c, \h1847>>, <<\h3215, \hd908>>, <<\hdd43, \h3b37>>, <<\h24c2, \hba16>>,
    <<\h12a1, \h4d43>>, <<\h2a65, \hc451>>, <<\h5094, \h0002>>, <<\h133a, \he4dd>>,
    <<\h71df, \hf89e>>, <<\h1031, \h4e55>>, <<\h81ac, \h77d6>>, <<\h5f11, \h199b>>,
    <<\h0435, \h56f1>>, <<\hd7a3, \hc76b>>, <<\h3c11, \h183b>>, <<\h5924, \ha509>>,
    <<\hf28f, \he6ed>>, <<\h97f1, \hfbfa>>, <<\h9eba, \hbf2c>>, <<\h1e15, \h3c6e>>,
    <<\h86e3, \h4570>>, <<\heae9, \h6fb1>>, <<\h860e, \h5e0a>>, <<\h5a3e, \h2ab3>>,
    <<\h771f, \he71c>>, <<\h4e3d, \h06fa>>, <<\h2965, \hdcb9>>, <<\h99e7, \h1d0f>>,
    <<\h803e, \h89d6>>, <<\h5266, \hc825>>, <<\h2e4c, \hc978>>, <<\h9c10, \hb36a>>,
    <<\hc615, \h0eba>>, <<\h94e2, \hea78>>, <<\ha5fc, \h3c53>>, <<\h1e0a, \h2df4>>,
    <<\hf2f7, \h4ea7>>, <<\h361d, \h2b3d>>, <<\h1939, \h260f>>, <<\h19c2, \h7960>>,
    <<\h5223, \ha708>>, <<\hf713, \h12b6>>, <<\hebad, \hfe6e>>, <<\heac3, \h1f66>>,
    <<\he3bc, \h4595>>, <<\ha67b, \hc883>>, <<\hb17f, \h37d1>>, <<\h018c, \hff28>>,
    <<\hc332, \hddef>>, <<\hbe6c, \h5aa5>>, <<\h6558, \h2185>>, <<\h68ab, \h9802>>,
    <<\heece, \ha50f>>, <<\hdb2f, \h953b>>, <<\h2aef, \h7dad>>, <<\h5b6e, \h2f84>>,
    <<\h1521, \hb628>>, <<\h2907, \h6170>>, <<\hecdd, \h4775>>, <<\h619f, \h1510>>,
    <<\h13cc, \ha830>>, <<\heb61, \hbd96>>, <<\h0334, \hfe1e>>, <<\haa03, \h63cf>>,
    <<\hb573, \h5c90>>, <<\h4c70, \ha239>>, <<\hd59e, \h9e0b>>, <<\hcbaa, \hde14>>,
    <<\heecc, \h86bc>>, <<\h6062, \h2ca7>>, <<\h9cab, \h5cab>>, <<\hb2f3, \h846e>>,
    <<\h648b, \h1eaf>>, <<\h19bd, \hf0ca>>, <<\ha023, \h69b9>>, <<\h655a, \hbb50>>,
    <<\h4068, \h5a32>>, <<\h3c2a, \hb4b3>>, <<\h319e, \he9d5>>, <<\hc021, \hb8f7>>,
    <<\h9b54, \h0b19>>, <<\h875f, \ha099>>, <<\h95f7, \h997e>>, <<\h623d, \h7da8>>,
    <<\hf837, \h889a>>, <<\h97e3, \h2d77>>, <<\h11ed, \h935f>>, <<\h1668, \h1281>>,
    <<\h0e35, \h8829>>, <<\hc7e6, \h1fd6>>, <<\h96de, \hdfa1>>, <<\h7858, \hba99>>,
    <<\h57f5, \h84a5>>, <<\h1b22, \h7263>>, <<\h9b83, \hc3ff>>, <<\h1ac2, \h4696>>,
    <<\hcdb3, \h0aeb>>, <<\h532e, \h3054>>, <<\h8fd9, \h48e4>>, <<\h6dbc, \h3128>>,
    <<\h58eb, \hf2ef>>, <<\h34c6, \hffea>>, <<\hfe28, \hed61>>, <<\hee7c, \h3c73>>,
    <<\h5d4a, \h14d9>>, <<\he864, \hb7e3>>, <<\h4210, \h5d14>>, <<\h203e, \h13e0>>,
    <<\h45ee, \he2b6>>, <<\ha3aa, \habea>>, <<\hdb6c, \h4f15>>, <<\hfacb, \h4fd0>>,
    <<\hc742, \hf442>>, <<\hef6a, \hbbb5>>, <<\h654f, \h3b1d>>, <<\h41cd, \h2105>>,
    <<\hd81e, \h799e>>, <<\h8685, \h4dc7>>, <<\he44b, \h476a>>, <<\h3d81, \h6250>>,
    <<\hcf62, \ha1f2>>, <<\h5b8d, \h2646>>, <<\hfc88, \h83a0>>, <<\hc1c7, \hb6a3>>,
    <<\h7f15, \h24c3>>, <<\h69cb, \h7492>>, <<\h4784, \h8a0b>>, <<\h5692, \hb285>>,
    <<\h095b, \hbf00>>, <<\had19, \h489d>>, <<\h1462, \hb174>>, <<\h2382, \h0e00>>,
    <<\h5842, \h8d2a>>, <<\h0c55, \hf5ea>>, <<\h1dad, \hf43e>>, <<\h233f, \h7061>>,
    <<\h3372, \hf092>>, <<\h8d93, \h7e41>>, <<\hd65f, \hecf1>>, <<\h6c22, \h3bdb>>,
    <<\h7cde, \h3759>>, <<\hcbee, \h7460>>, <<\h4085, \hf2a7>>, <<\hce77, \h326e>>,
    <<\ha607, \h8084>>, <<\h19f8, \h509e>>, <<\he8ef, \hd855>>, <<\h61d9, \h9735>>,
    <<\ha969, \ha7aa>>, <<\hc50c, \h06c2>>, <<\h5a04, \habfc>>, <<\h800b, \hcadc>>,
    <<\h9e44, \h7a2e>>, <<\hc345, \h3484>>, <<\hfdd5, \h6705>>, <<\h0e1e, \h9ec9>>,
    <<\hdb73, \hdbd3>>, <<\h1055, \h88cd>>, <<\h675f, \hda79>>, <<\he367, \h4340>>,
    <<\hc5c4, \h3465>>, <<\h713e, \h38d8>>, <<\h3d28, \hf89e>>, <<\hf16d, \hff20>>,
    <<\h153e, \h21e7>>, <<\h8fb0, \h3d4a>>, <<\he6e3, \h9f2b>>, <<\hdb83, \hadf7>>
  >>

SBOX_INIT_2 ==
  <<
    <<\he93d, \h5a68>>, <<\h9481, \h40f7>>, <<\hf64c, \h261c>>, <<\h9469, \h2934>>,
    <<\h4115, \h20f7>>, <<\h7602, \hd4f7>>, <<\hbcf4, \h6b2e>>, <<\hd4a2, \h0068>>,
    <<\hd408, \h2471>>, <<\h3320, \hf46a>>, <<\h43b7, \hd4b7>>, <<\h5000, \h61af>>,
    <<\h1e39, \hf62e>>, <<\h9724, \h4546>>, <<\h1421, \h4f74>>, <<\hbf8b, \h8840>>,
    <<\h4d95, \hfc1d>>, <<\h96b5, \h91af>>, <<\h70f4, \hddd3>>, <<\h66a0, \h2f45>>,
    <<\hbfbc, \h09ec>>, <<\h03bd, \h9785>>, <<\h7fac, \h6dd0>>, <<\h31cb, \h8504>>,
    <<\h96eb, \h27b3>>, <<\h55fd, \h3941>>, <<\hda25, \h47e6>>, <<\habca, \h0a9a>>,
    <<\h2850, \h7825>>, <<\h5304, \h29f4>>, <<\h0a2c, \h86da>>, <<\he9b6, \h6dfb>>,
    <<\h68dc, \h1462>>, <<\hd748, \h6900>>, <<\h680e, \hc0a4>>, <<\h27a1, \h8dee>>,
    <<\h4f3f, \hfea2>>, <<\he887, \had8c>>, <<\hb58c, \he006>>, <<\h7af4, \hd6b6>>,
    <<\haace, \h1e7c>>, <<\hd337, \h5fec>>, <<\hce78, \ha399>>, <<\h406b, \h2a42>>,
    <<\h20fe, \h9e35>>, <<\hd9f3, \h85b9>>, <<\hee39, \hd7ab>>, <<\h3b12, \h4e8b>>,
    <<\h1dc9, \hfaf7>>, <<\h4b6d, \h1856>>, <<\h26a3, \h6631>>, <<\heae3, \h97b2>>,
    <<\h3a6e, \hfa74>>, <<\hdd5b, \h4332>>, <<\h6841, \he7f7>>, <<\hca78, \h20fb>>,
    <<\hfb0a, \hf54e>>, <<\hd8fe, \hb397>>, <<\h4540, \h56ac>>, <<\hba48, \h9527>>,
    <<\h5553, \h3a3a>>, <<\h2083, \h8d87>>, <<\hfe6b, \ha9b7>>, <<\hd096, \h954b>>,
    <<\h55a8, \h67bc>>, <<\ha115, \h9a58>>, <<\hcca9, \h2963>>, <<\h99e1, \hdb33>>,
    <<\ha62a, \h4a56>>, <<\h3f31, \h25f9>>, <<\h5ef4, \h7e1c>>, <<\h9029, \h317c>>,
    <<\hfdf8, \he802>>, <<\h0427, \h2f70>>, <<\h80bb, \h155c>>, <<\h0528, \h2ce3>>,
    <<\h95c1, \h1548>>, <<\he4c6, \h6d22>>, <<\h48c1, \h133f>>, <<\hc70f, \h86dc>>,
    <<\h07f9, \hc9ee>>, <<\h4104, \h1f0f>>, <<\h4047, \h79a4>>, <<\h5d88, \h6e17>>,
    <<\h325f, \h51eb>>, <<\hd59b, \hc0d1>>, <<\hf2bc, \hc18f>>, <<\h4111, \h3564>>,
    <<\h257b, \h7834>>, <<\h602a, \h9c60>>, <<\hdff8, \he8a3>>, <<\h1f63, \h6c1b>>,
    <<\h0e12, \hb4c2>>, <<\h02e1, \h329e>>, <<\haf66, \h4fd1>>, <<\hcad1, \h8115>>,
    <<\h6b23, \h95e0>>, <<\h333e, \h92e1>>, <<\h3b24, \h0b62>>, <<\heebe, \hb922>>,
    <<\h85b2, \ha20e>>, <<\he6ba, \h0d99>>, <<\hde72, \h0c8c>>, <<\h2da2, \hf728>>,
    <<\hd012, \h7845>>, <<\h95b7, \h94fd>>, <<\h647d, \h0862>>, <<\he7cc, \hf5f0>>,
    <<\h5449, \ha36f>>, <<\h877d, \h48fa>>, <<\hc39d, \hfd27>>, <<\hf33e, \h8d1e>>,
    <<\h0a47, \h6341>>, <<\h992e, \hff74>>, <<\h3a6f, \h6eab>>, <<\hf4f8, \hfd37>>,
    <<\ha812, \hdc60>>, <<\ha1eb, \hddf8>>, <<\h991b, \he14c>>, <<\hdb6e, \h6b0d>>,
    <<\hc67b, \h5510>>, <<\h6d67, \h2c37>>, <<\h2765, \hd43b>>, <<\hdcd0, \he804>>,
    <<\hf129, \h0dc7>>, <<\hcc00, \hffa3>>, <<\hb539, \h0f92>>, <<\h690f, \hed0b>>,
    <<\h667b, \h9ffb>>, <<\hcedb, \h7d9c>>, <<\ha091, \hcf0b>>, <<\hd915, \h5ea3>>,
    <<\hbb13, \h2f88>>, <<\h515b, \had24>>, <<\h7b94, \h79bf>>, <<\h763b, \hd6eb>>,
    <<\h3739, \h2eb3>>, <<\hcc11, \h5979>>, <<\h8026, \he297>>, <<\hf42e, \h312d>>,
    <<\h6842, \hada7>>, <<\hc66a, \h2b3b>>, <<\h1275, \h4ccc>>, <<\h782e, \hf11c>>,
    <<\h6a12, \h4237>>, <<\hb792, \h51e7>>, <<\h06a1, \hbbe6>>, <<\h4bfb, \h6350>>,
    <<\h1a6b, \h1018>>, <<\h11ca, \hedfa>>, <<\h3d25, \hbdd8>>, <<\he2e1, \hc3c9>>,
    <<\h4442, \h1659>>, <<\h0a12, \h1386>>, <<\hd90c, \hec6e>>, <<\hd5ab, \hea2a>>,
    <<\h64af, \h674e>>, <<\hda86, \ha85f>>, <<\hbebf, \he988>>, <<\h64e4, \hc3fe>>,
    <<\h9dbc, \h8057>>, <<\hf0f7, \hc086>>, <<\h6078, \h7bf8>>, <<\h6003, \h604d>>,
    <<\hd1fd, \h8346>>, <<\hf638, \h1fb0>>, <<\h7745, \hae04>>, <<\hd736, \hfccc>>,
    <<\h8342, \h6b33>>, <<\hf01e, \hab71>>, <<\hb080, \h4187>>, <<\h3c00, \h5e5f>>,
    <<\h77a0, \h57be>>, <<\hbde8, \hae24>>, <<\h5546, \h4299>>, <<\hbf58, \h2e61>>,
    <<\h4e58, \hf48f>>, <<\hf2dd, \hfda2>>, <<\hf474, \hef38>>, <<\h8789, \hbdc2>>,
    <<\h5366, \hf9c3>>, <<\hc8b3, \h8e74>>, <<\hb475, \hf255>>, <<\h46fc, \hd9b9>>,
    <<\h7aeb, \h2661>>, <<\h8b1d, \hdf84>>, <<\h846a, \h0e79>>, <<\h915f, \h95e2>>,
    <<\h466e, \h598e>>, <<\h20b4, \h5770>>, <<\h8cd5, \h5591>>, <<\hc902, \hde4c>>,
    <<\hb90b, \hace1>>, <<\hbb82, \h05d0>>, <<\h11a8, \h6248>>, <<\h7574, \ha99e>>,
    <<\hb77f, \h19b6>>, <<\he0a9, \hdc09>>, <<\h662d, \h09a1>>, <<\hc432, \h4633>>,
    <<\he85a, \h1f02>>, <<\h09f0, \hbe8c>>, <<\h4a99, \ha025>>, <<\h1d6e, \hfe10>>,
    <<\h1ab9, \h3d1d>>, <<\h0ba5, \ha4df>>, <<\ha186, \hf20f>>, <<\h2868, \hf169>>,
    <<\hdcb7, \hda83>>, <<\h5739, \h06fe>>, <<\ha1e2, \hce9b>>, <<\h4fcd, \h7f52>>,
    <<\h5011, \h5e01>>, <<\ha706, \h83fa>>, <<\ha002, \hb5c4>>, <<\h0de6, \hd027>>,
    <<\h9af8, \h8c27>>, <<\h773f, \h8641>>, <<\hc360, \h4c06>>, <<\h61a8, \h06b5>>,
    <<\hf017, \h7a28>>, <<\hc0f5, \h86e0>>, <<\h0060, \h58aa>>, <<\h30dc, \h7d62>>,
    <<\h11e6, \h9ed7>>, <<\h2338, \hea63>>, <<\h53c2, \hdd94>>, <<\hc2c2, \h1634>>,
    <<\hbbcb, \hee56>>, <<\h90bc, \hb6de>>, <<\hebfc, \h7da1>>, <<\hce59, \h1d76>>,
    <<\h6f05, \he409>>, <<\h4b7c, \h0188>>, <<\h3972, \h0a3d>>, <<\h7c92, \h7c24>>,
    <<\h86e3, \h725f>>, <<\h724d, \h9db9>>, <<\h1ac1, \h5bb4>>, <<\hd39e, \hb8fc>>,
    <<\hed54, \h5578>>, <<\h08fc, \ha5b5>>, <<\hd83d, \h7cd3>>, <<\h4dad, \h0fc4>>,
    <<\h1e50, \hef5e>>, <<\hb161, \he6f8>>, <<\ha285, \h14d9>>, <<\h6c51, \h133c>>,
    <<\h6fd5, \hc7e7>>, <<\h56e1, \h4ec4>>, <<\h362a, \hbfce>>, <<\hddc6, \hc837>>,
    <<\hd79a, \h3234>>, <<\h9263, \h8212>>, <<\h670e, \hfa8e>>, <<\h4060, \h00e0>>
  >>

SBOX_INIT_3 ==
  <<
    <<\h3a39, \hce37>>, <<\hd3fa, \hf5cf>>, <<\habc2, \h7737>>, <<\h5ac5, \h2d1b>>,
    <<\h5cb0, \h679e>>, <<\h4fa3, \h3742>>, <<\hd382, \h2740>>, <<\h99bc, \h9bbe>>,
    <<\hd511, \h8e9d>>, <<\hbf0f, \h7315>>, <<\hd62d, \h1c7e>>, <<\hc700, \hc47b>>,
    <<\hb78c, \h1b6b>>, <<\h21a1, \h9045>>, <<\hb26e, \hb1be>>, <<\h6a36, \h6eb4>>,
    <<\h5748, \hab2f>>, <<\hbc94, \h6e79>>, <<\hc6a3, \h76d2>>, <<\h6549, \hc2c8>>,
    <<\h530f, \hf8ee>>, <<\h468d, \hde7d>>, <<\hd573, \h0a1d>>, <<\h4cd0, \h4dc6>>,
    <<\h2939, \hbbdb>>, <<\ha9ba, \h4650>>, <<\hac95, \h26e8>>, <<\hbe5e, \he304>>,
    <<\ha1fa, \hd5f0>>, <<\h6a2d, \h519a>>, <<\h63ef, \h8ce2>>, <<\h9a86, \hee22>>,
    <<\hc089, \hc2b8>>, <<\h4324, \h2ef6>>, <<\ha51e, \h03aa>>, <<\h9cf2, \hd0a4>>,
    <<\h83c0, \h61ba>>, <<\h9be9, \h6a4d>>, <<\h8fe5, \h1550>>, <<\hba64, \h5bd6>>,
    <<\h2826, \ha2f9>>, <<\ha73a, \h3ae1>>, <<\h4ba9, \h9586>>, <<\hef55, \h62e9>>,
    <<\hc72f, \hefd3>>, <<\hf752, \hf7da>>, <<\h3f04, \h6f69>>, <<\h77fa, \h0a59>>,
    <<\h80e4, \ha915>>, <<\h87b0, \h8601>>, <<\h9b09, \he6ad>>, <<\h3b3e, \he593>>,
    <<\he990, \hfd5a>>, <<\h9e34, \hd797>>, <<\h2cf0, \hb7d9>>, <<\h022b, \h8b51>>,
    <<\h96d5, \hac3a>>, <<\h017d, \ha67d>>, <<\hd1cf, \h3ed6>>, <<\h7c7d, \h2d28>>,
    <<\h1f9f, \h25cf>>, <<\hadf2, \hb89b>>, <<\h5ad6, \hb472>>, <<\h5a88, \hf54c>>,
    <<\he029, \hac71>>, <<\he019, \ha5e6>>, <<\h47b0, \hacfd>>, <<\hed93, \hfa9b>>,
    <<\he8d3, \hc48d>>, <<\h283b, \h57cc>>, <<\hf8d5, \h6629>>, <<\h7913, \h2e28>>,
    <<\h785f, \h0191>>, <<\hed75, \h6055>>, <<\hf796, \h0e44>>, <<\he3d3, \h5e8c>>,
    <<\h1505, \h6dd4>>, <<\h88f4, \h6dba>>, <<\h03a1, \h6125>>, <<\h0564, \hf0bd>>,
    <<\hc3eb, \h9e15>>, <<\h3c90, \h57a2>>, <<\h9727, \h1aec>>, <<\ha93a, \h072a>>,
    <<\h1b3f, \h6d9b>>, <<\h1e63, \h21f5>>, <<\hf59c, \h66fb>>, <<\h26dc, \hf319>>,
    <<\h7533, \hd928>>, <<\hb155, \hfdf5>>, <<\h0356, \h3482>>, <<\h8aba, \h3cbb>>,
    <<\h2851, \h7711>>, <<\hc20a, \hd9f8>>, <<\habcc, \h5167>>, <<\hccad, \h925f>>,
    <<\h4de8, \h1751>>, <<\h3830, \hdc8e>>, <<\h379d, \h5862>>, <<\h9320, \hf991>>,
    <<\hea7a, \h90c2>>, <<\hfb3e, \h7bce>>, <<\h5121, \hce64>>, <<\h774f, \hbe32>>,
    <<\ha8b6, \he37e>>, <<\hc329, \h3d46>>, <<\h48de, \h5369>>, <<\h6413, \he680>>,
    <<\ha2ae, \h0810>>, <<\hdd6d, \hb224>>, <<\h6985, \h2dfd>>, <<\h0907, \h2166>>,
    <<\hb39a, \h460a>>, <<\h6445, \hc0dd>>, <<\h586c, \hdecf>>, <<\h1c20, \hc8ae>>,
    <<\h5bbe, \hf7dd>>, <<\h1b58, \h8d40>>, <<\hccd2, \h017f>>, <<\h6bb4, \he3bb>>,
    <<\hdda2, \h6a7e>>, <<\h3a59, \hff45>>, <<\h3e35, \h0a44>>, <<\hbcb4, \hcdd5>>,
    <<\h72ea, \hcea8>>, <<\hfa64, \h84bb>>, <<\h8d66, \h12ae>>, <<\hbf3c, \h6f47>>,
    <<\hd29b, \he463>>, <<\h542f, \h5d9e>>, <<\haec2, \h771b>>, <<\hf64e, \h6370>>,
    <<\h740e, \h0d8d>>, <<\he75b, \h1357>>, <<\hf872, \h1671>>, <<\haf53, \h7d5d>>,
    <<\h4040, \hcb08>>, <<\h4eb4, \he2cc>>, <<\h34d2, \h466a>>, <<\h0115, \haf84>>,
    <<\he1b0, \h0428>>, <<\h9598, \h3a1d>>, <<\h06b8, \h9fb4>>, <<\hce6e, \ha048>>,
    <<\h6f3f, \h3b82>>, <<\h3520, \hab82>>, <<\h011a, \h1d4b>>, <<\h2772, \h27f8>>,
    <<\h6115, \h60b1>>, <<\he793, \h3fdc>>, <<\hbb3a, \h792b>>, <<\h3445, \h25bd>>,
    <<\ha088, \h39e1>>, <<\h51ce, \h794b>>, <<\h2f32, \hc9b7>>, <<\ha01f, \hbac9>>,
    <<\he01c, \hc87e>>, <<\hbcc7, \hd1f6>>, <<\hcf01, \h11c3>>, <<\ha1e8, \haac7>>,
    <<\h1a90, \h8749>>, <<\hd44f, \hbd9a>>, <<\hd0da, \hdecb>>, <<\hd50a, \hda38>>,
    <<\h0339, \hc32a>>, <<\hc691, \h3667>>, <<\h8df9, \h317c>>, <<\he0b1, \h2b4f>>,
    <<\hf79e, \h59b7>>, <<\h43f5, \hbb3a>>, <<\hf2d5, \h19ff>>, <<\h27d9, \h459c>>,
    <<\hbf97, \h222c>>, <<\h15e6, \hfc2a>>, <<\h0f91, \hfc71>>, <<\h9b94, \h1525>>,
    <<\hfae5, \h9361>>, <<\hceb6, \h9ceb>>, <<\hc2a8, \h6459>>, <<\h12ba, \ha8d1>>,
    <<\hb6c1, \h075e>>, <<\he305, \h6a0c>>, <<\h10d2, \h5065>>, <<\hcb03, \ha442>>,
    <<\he0ec, \h6e0e>>, <<\h1698, \hdb3b>>, <<\h4c98, \ha0be>>, <<\h3278, \he964>>,
    <<\h9f1f, \h9532>>, <<\he0d3, \h92df>>, <<\hd3a0, \h342b>>, <<\h8971, \hf21e>>,
    <<\h1b0a, \h7441>>, <<\h4ba3, \h348c>>, <<\hc5be, \h7120>>, <<\hc376, \h32d8>>,
    <<\hdf35, \h9f8d>>, <<\h9b99, \h2f2e>>, <<\he60b, \h6f47>>, <<\h0fe3, \hf11d>>,
    <<\he54c, \hda54>>, <<\h1eda, \hd891>>, <<\hce62, \h79cf>>, <<\hcd3e, \h7e6f>>,
    <<\h1618, \hb166>>, <<\hfd2c, \h1d05>>, <<\h848f, \hd2c5>>, <<\hf6fb, \h2299>>,
    <<\hf523, \hf357>>, <<\ha632, \h7623>>, <<\h93a8, \h3531>>, <<\h56cc, \hcd02>>,
    <<\hacf0, \h8162>>, <<\h5a75, \hebb5>>, <<\h6e16, \h3697>>, <<\h88d2, \h73cc>>,
    <<\hde96, \h6292>>, <<\h81b9, \h49d0>>, <<\h4c50, \h901b>>, <<\h71c6, \h5614>>,
    <<\he6c6, \hc7bd>>, <<\h327a, \h140a>>, <<\h45e1, \hd006>>, <<\hc3f2, \h7b9a>>,
    <<\hc9aa, \h53fd>>, <<\h62a8, \h0f00>>, <<\hbb25, \hbfe2>>, <<\h35bd, \hd2f6>>,
    <<\h7112, \h6905>>, <<\hb204, \h0222>>, <<\hb6cb, \hcf7c>>, <<\hcd76, \h9c2b>>,
    <<\h5311, \h3ec0>>, <<\h1640, \he3d3>>, <<\h38ab, \hbd60>>, <<\h2547, \hadf0>>,
    <<\hba38, \h209c>>, <<\hf746, \hce76>>, <<\h77af, \ha1c5>>, <<\h2075, \h6060>>,
    <<\h85cb, \hfe4e>>, <<\h8ae8, \h8dd8>>, <<\h7aaa, \hf9b0>>, <<\h4cf9, \haa7e>>,
    <<\h1948, \hc25c>>, <<\h02fb, \h8a8c>>, <<\h01c3, \h6ae4>>, <<\hd6eb, \he1f9>>,
    <<\h90d4, \hf869>>, <<\ha65c, \hdea0>>, <<\h3f09, \h252d>>, <<\hc208, \he69f>>,
    <<\hb74e, \h6132>>, <<\hce77, \he25b>>, <<\h578f, \hdfe3>>, <<\h3ac3, \h72e6>>
  >>

\* BLOWFISH_INITIAL: s from sbox-init.in (the fractional digits of pi that
\* follow the P-array's), p as listed
BLOWFISH_INITIAL ==
  [ s |-> Array(<<Array(SBOX_INIT_0), Array(SBOX_INIT_1),
                  Array(SBOX_INIT_2), Array(SBOX_INIT_3)>>),
    p |-> Array(<<
      <<\h243f, \h6a88>>, <<\h85a3, \h08d3>>, <<\h1319, \h8a2e>>, <<\h0370, \h7344>>,
      <<\ha409, \h3822>>, <<\h299f, \h31d0>>, <<\h082e, \hfa98>>, <<\hec4e, \h6c89>>,
      <<\h4528, \h21e6>>, <<\h38d0, \h1377>>, <<\hbe54, \h66cf>>, <<\h34e9, \h0c6c>>,
      <<\hc0ac, \h29b7>>, <<\hc97c, \h50dd>>, <<\h3f84, \hd5b5>>, <<\hb547, \h0917>>,
      <<\h9216, \hd5d9>>, <<\h8979, \hfb1b>> >>) ]

\* BCRYPT_MESSAGE: "OrpheanBeholderScryDoubt" as six big-endian words
BCRYPT_MESSAGE ==
  Array(<<
    from_be_bytes(79, 114, 112, 104),   \* "Orph"
    from_be_bytes(101, 97, 110, 66),    \* "eanB"
    from_be_bytes(101, 104, 111, 108),  \* "ehol"
    from_be_bytes(100, 101, 114, 83),   \* "derS"
    from_be_bytes(99, 114, 121, 68),    \* "cryD"
    from_be_bytes(111, 117, 98, 116)    \* "oubt"
  >>)

(***************************************************************************)
(* Salt and WorkFactor                                                     *)
(***************************************************************************)
\* Salt::from_bytes: be[i] = u32::from_be_bytes(bytes[4i .. 4i+3])
Salt_from_bytes(bytes) ==
  [ be |-> [i \in 0 .. 3 |->
      from_be_bytes(bytes[4 * i], bytes[4 * i + 1], bytes[4 * i + 2], bytes[4 * i + 3])] ]

\* a variant of Salt::to_bytes: each word written least significant byte first
Salt_to_bytes_le(self) ==
  [n \in 0 .. SALT_SIZE - 1 |-> to_be_bytes[self.be[n \div 4]][4 - (n % 4)]]

\* Salt::to_bytes: chunk n \div 4 of the 16 bytes receives be[n \div 4].to_be_bytes()
Salt_to_bytes(self) ==
  [n \in 0 .. SALT_SIZE - 1 |-> to_be_bytes[self.be[n \div 4]][(n % 4) + 1]]

None == [some |-> FALSE]
Some(x) == [some |-> TRUE, value |-> x]

\* the tuple struct WorkFactor(u32); field 0 is wf[1]
WorkFactor(x) == <<x>>

\* the associated constants EXP4 .. EXP31
WorkFactor_EXP == [n \in 4 .. 31 |-> WorkFactor(U32(n))]

\* a variant of WorkFactor::exp: the lower limit exclusive
WorkFactor_exp_exclusive(log_rounds) ==
  IF Lt(U32(4), log_rounds) /\ Le(log_rounds, U32(31))
  THEN Some(WorkFactor(log_rounds))
  ELSE None

\* WorkFactor::exp
WorkFactor_exp(log_rounds) ==
  IF Le(U32(4), log_rounds) /\ Le(log_rounds, U32(31))
  THEN Some(WorkFactor(log_rounds))
  ELSE None

log_rounds(self) == self[1]

\* a variant of linear_rounds: the shift made on a signed 32-bit integer, a
\* negative result giving an empty range
linear_rounds_i32(self) ==
  IF Shl1(self[1][2])[1] >= 32768 THEN ZeroWord ELSE Shl1(self[1][2])

\* 1 << self.0 (the field is below 2^16 for every shift the program makes)
linear_rounds(self) == Shl1(self[1][2])

(***************************************************************************)
(* Blowfish primitives                                                     *)
(***************************************************************************)
\* x is split into its bytes b0 .. b3, most significant first
f(c, x) ==
  wrapping_add[
    Xor[wrapping_add[c.s[0][x[1] \div 256], c.s[1][x[1] % 256]], c.s[2][x[2] \div 256]],
    c.s[3][x[2] % 256]]

\* the loop body of blowfish_encipher for one i; lr = <<l, r>>, and the l and
\* the r it leaves are named l2 and r2
encipher_round(c, i, lr) ==
  Eval(LAMBDA l1 :
         Eval(LAMBDA r2 : <<Xor[l1, f(c, r2)], r2>>,
              Xor[Xor[lr[2], f(c, l1)], c.p[i + 1]]),
       Xor[lr[1], c.p[i]])

\* the loop of blowfish_encipher from i on: i = 0, 2, ..., 14
RECURSIVE encipher_rounds(_, _, _)
encipher_rounds(c, i, lr) ==
  IF i >= 16 THEN lr
  ELSE Eval(LAMBDA v : encipher_rounds(c, i + 2, v), encipher_round(c, i, lr))

\* after the loop: l ^= p[16], r ^= p[17], and (r, l) is returned
blowfish_encipher(c, l, r) ==
  Eval(LAMBDA lr : <<Xor[lr[2], c.p[17]], Xor[lr[1], c.p[16]]>>,
       encipher_rounds(c, 0, <<l, r>>))

(***************************************************************************)
(* KeyCycle and blowfish_expandstate_key                                   *)
(***************************************************************************)
\* a slice: a function on 0 .. len - 1
len(slice) == Cardinality(DOMAIN slice)

contains(slice, b) == \E j \in DOMAIN slice : slice[j] = b

\* KeyCycle::next: the item yielded and the iterator after it
KeyCycle_next(self) ==
  IF self.index = len(self.key)
  THEN [item |-> 0, iter |-> [self EXCEPT !.index = 0]]
  ELSE [item |-> self.key[self.index], iter |-> [self EXCEPT !.index = self.index + 1]]

\* read_u32_be: four items of the iterator, most significant first
read_u32_be(bytes) ==
  Eval(LAMBDA n0 :
    Eval(LAMBDA n1 :
      Eval(LAMBDA n2 :
        Eval(LAMBDA n3 :
               [word |-> from_be_bytes(n0.item, n1.item, n2.item, n3.item),
                iter |-> n3.iter],
             KeyCycle_next(n2.iter)),
           KeyCycle_next(n1.iter)),
         KeyCycle_next(n0.iter)),
       KeyCycle_next(bytes))

\* a variant of expandstate_key_iter: a new KeyCycle for every word of P
expandstate_key_iter_restart(st, i) ==
  Eval(LAMBDA rd : [c |-> [st.c EXCEPT !.p[i] = Xor[st.c.p[i], rd.word]],
                    key_cycle |-> rd.iter],
       read_u32_be([st.key_cycle EXCEPT !.index = 0]))

\* the body of the loop of blowfish_expandstate_key at P[i]; st = [c, key_cycle]
expandstate_key_iter(st, i) ==
  Eval(LAMBDA rd : [c |-> [st.c EXCEPT !.p[i] = Xor[st.c.p[i], rd.word]],
                    key_cycle |-> rd.iter],
       read_u32_be(st.key_cycle))

RECURSIVE expandstate_key_loop(_, _)
expandstate_key_loop(st, i) ==
  IF i >= BLF_N + 2 THEN st
  ELSE Eval(LAMBDA v : expandstate_key_loop(v, i + 1), expandstate_key_iter(st, i))

blowfish_expandstate_key(c, key) ==
  expandstate_key_loop([c |-> c, key_cycle |-> [key |-> key, index |-> 0]], 0).c

(***************************************************************************)
(* blowfish_expandstate_data and blowfish_expandstate_data0: their loop    *)
(* bodies, each returning [c, datal, datar], and their loops               *)
(***************************************************************************)
\* what an iteration leaves: the encipher's output nx in the pair of words
\* written and in (datal, datar)
p_written(c, i, nx) ==
  [c |-> [c EXCEPT !.p[i] = nx[1], !.p[i + 1] = nx[2]], datal |-> nx[1], datar |-> nx[2]]

s_written(c, i, k, nx) ==
  [c |-> [c EXCEPT !.s[i][k] = nx[1], !.s[i][k + 1] = nx[2]], datal |-> nx[1], datar |-> nx[2]]

\* the P-array loop of expandstate_data at index i
expandstate_data_p(c, datal, datar, data, i) ==
  Eval(LAMBDA nx : p_written(c, i, nx),
       blowfish_encipher(c, Xor[datal, data[i % 4]], Xor[datar, data[(i % 4) + 1]]))

\* a variant of the S-box loop of expandstate_data: the salt words taken at
\* k % 4, as the P-array loop takes them at i % 4
expandstate_data_s_unshifted(c, datal, datar, data, i, k) ==
  Eval(LAMBDA nx : s_written(c, i, k, nx),
       blowfish_encipher(c, Xor[datal, data[k % 4]], Xor[datar, data[(k % 4) + 1]]))

\* the S-box loop of expandstate_data at box i, index k
expandstate_data_s(c, datal, datar, data, i, k) ==
  Eval(LAMBDA nx : s_written(c, i, k, nx),
       blowfish_encipher(c, Xor[datal, data[(k + 2) % 4]],
                            Xor[datar, data[((k + 2) % 4) + 1]]))

\* the P-array loop of expandstate_data0 at index i
expandstate_data0_p(c, datal, datar, i) ==
  Eval(LAMBDA nx : p_written(c, i, nx), blowfish_encipher(c, datal, datar))

\* the S-box loop of expandstate_data0 at box i, index k
expandstate_data0_s(c, datal, datar, i, k) ==
  Eval(LAMBDA nx : s_written(c, i, k, nx), blowfish_encipher(c, datal, datar))

\* for i in (0..BLF_N + 2).step_by(2), from index i on; st = [c, datal, datar]
RECURSIVE expandstate_data0_p_loop(_, _)
expandstate_data0_p_loop(st, i) ==
  IF i >= BLF_N + 2 THEN st
  ELSE Eval(LAMBDA v : expandstate_data0_p_loop(v, i + 2),
            expandstate_data0_p(st.c, st.datal, st.datar, i))

\* for k in (0..256).step_by(2) on S-box i: the iterations k = 2 * lo, ...,
\* 2 * (hi - 1), in order.  (The range is halved, not walked, so that the
\* evaluation of its 128 iterations does not nest 128 deep.)
RECURSIVE expandstate_data0_s_range(_, _, _, _)
expandstate_data0_s_range(st, i, lo, hi) ==
  IF hi - lo = 1 THEN expandstate_data0_s(st.c, st.datal, st.datar, i, 2 * lo)
  ELSE Eval(LAMBDA v : expandstate_data0_s_range(v, i, (lo + hi) \div 2, hi),
            expandstate_data0_s_range(st, i, lo, (lo + hi) \div 2))

\* for i in (0..BLF_N + 2).step_by(2) in expandstate_data, from index i on
RECURSIVE expandstate_data_p_loop(_, _, _)
expandstate_data_p_loop(st, data, i) ==
  IF i >= BLF_N + 2 THEN st
  ELSE Eval(LAMBDA v : expandstate_data_p_loop(v, data, i + 2),
            expandstate_data_p(st.c, st.datal, st.datar, data, i))

\* for k in (0..256).step_by(2) on S-box i in expandstate_data: the
\* iterations k = 2 * lo, ..., 2 * (hi - 1), in order
RECURSIVE expandstate_data_s_range(_, _, _, _, _)
expandstate_data_s_range(st, data, i, lo, hi) ==
  IF hi - lo = 1 THEN expandstate_data_s(st.c, st.datal, st.datar, data, i, 2 * lo)
  ELSE Eval(LAMBDA v : expandstate_data_s_range(v, data, i, (lo + hi) \div 2, hi),
            expandstate_data_s_range(st, data, i, lo, (lo + hi) \div 2))

\* for i in 0..4 in expandstate_data, from S-box i on
RECURSIVE expandstate_data_s_boxes(_, _, _)
expandstate_data_s_boxes(st, data, i) ==
  IF i >= 4 THEN st
  ELSE Eval(LAMBDA v : expandstate_data_s_boxes(v, data, i + 1),
            expandstate_data_s_range(st, data, i, 0, 128))

blowfish_expandstate_data(c, data) ==
  expandstate_data_s_boxes(
    expandstate_data_p_loop([c |-> c, datal |-> ZeroWord, datar |-> ZeroWord], data, 0),
    data, 0).c

(***************************************************************************)
(* The pieces of bcrypt                                                    *)
(***************************************************************************)
Err(e) == [ok |-> FALSE, err |-> e]
Ok(v) == [ok |-> TRUE, value |-> v]

\* a variant of bcrypt_check: the zero-byte check first
bcrypt_check_zero_first(key) ==
  IF contains(key, 0) THEN "ZeroByte"
  ELSE IF len(key) > KEY_SIZE_MAX THEN "Length"
  ELSE "none"

\* a variant of bcrypt_check: one error for both checks
bcrypt_check_one_error(key) ==
  IF len(key) > KEY_SIZE_MAX \/ contains(key, 0) THEN "Length" ELSE "none"

\* the two checks at entry: the error returned, or "none"
bcrypt_check(key) ==
  IF len(key) > KEY_SIZE_MAX THEN "Length"
  ELSE IF contains(key, 0) THEN "ZeroByte"
  ELSE "none"

\* state.p[i] ^= salt.be[i % 4] for i in 0 .. BLF_N + 1
bcrypt_salt_xor(c, salt) ==
  [c EXCEPT !.p = [i \in 0 .. BLF_N + 1 |-> Xor[c.p[i], salt.be[i % 4]]]]

\* the body of the inner loop of the 64 passes: block (cdata[i], cdata[i + 1])
bcrypt_encipher_block(c, cdata, i) ==
  Eval(LAMBDA lr : [cdata EXCEPT ![i] = lr[1], ![i + 1] = lr[2]],
       blowfish_encipher(c, cdata[i], cdata[i + 1]))

\* for i in (0..BCRYPT_MESSAGE.len()).step_by(2), from block i on
RECURSIVE bcrypt_encipher_pass(_, _, _)
bcrypt_encipher_pass(c, cdata, i) ==
  IF i >= len(BCRYPT_MESSAGE) THEN cdata
  ELSE Eval(LAMBDA v : bcrypt_encipher_pass(c, v, i + 2), bcrypt_encipher_block(c, cdata, i))

\* a variant of bcrypt_result: the last three bytes of cdata[5], not the first
bcrypt_result_low_bytes(cdata) ==
  [n \in 0 .. HASH_SIZE - 1 |->
     IF n < 20 THEN to_be_bytes[cdata[n \div 4]][(n % 4) + 1]
     ELSE to_be_bytes[cdata[5]][(n - 20) + 2]]

\* the 23 result bytes: five whole words of cdata, then to_be_bytes()[0..3] of cdata[5]
bcrypt_result(cdata) ==
  [n \in 0 .. HASH_SIZE - 1 |->
     IF n < 20 THEN to_be_bytes[cdata[n \div 4]][(n % 4) + 1]
     ELSE to_be_bytes[cdata[5]][(n - 20) + 1]]

(***************************************************************************)
(* Bounds and inputs                                                       *)
(***************************************************************************)
\* callers that may be inside bcrypt at the same time
NThreads == 2
\* the longest key tried (the limit is KEY_SIZE_MAX)
MaxKeyLen == 74
\* the largest cost with which a key that passes the checks is hashed
MaxRunCost == 4
\* the arguments given to WorkFactor::exp: low limb 0 .. MaxExpArg
MaxExpArg == 40
\* the salts of the Salt round trip: seeds 0 .. MaxSaltSeed
MaxSaltSeed == 20
\* how often blowfish_expandstate_key is applied in a row to one state
MaxExpandCalls == 2

Threads == 1 .. NThreads

\* a key of n bytes, byte z zero (none when z is outside 0 .. n-1) and the
\* others non-zero
MakeKey(n, z, seed) ==
  [j \in 0 .. n - 1 |-> IF j = z THEN 0 ELSE ((7 * j + seed) % 255) + 1]

\* sixteen salt bytes, all different
SaltBytes(seed) == [n \in 0 .. SALT_SIZE - 1 |-> (seed + 37 * n) % 256]

\* every work factor the public interface gives: exp of a u32, or a constant
ExpArgs == {<<hi, lo>> : hi \in {0, 1, 65535}, lo \in 0 .. MaxExpArg}
Obtainable ==
  {WorkFactor_exp(a).value : a \in {x \in ExpArgs : WorkFactor_exp(x).some}}
    \cup {WorkFactor_EXP[n] : n \in DOMAIN WorkFactor_EXP}

Input(key_, salt_, wf_) == [key |-> key_, salt |-> salt_, work_factor |-> wf_]

\* keys that pass the checks: the empty key and one of KEY_SIZE_MAX bytes
GoodKeys == {MakeKey(0, -1, 1), MakeKey(KEY_SIZE_MAX, -1, 1)}

\* keys that fail them: too long (with and without a zero byte), or with a
\* zero byte first, in the middle or last
BadKeys ==
  UNION {{MakeKey(n, z, 1) : z \in {-1, 0, 1, n - 1}} : n \in KEY_SIZE_MAX + 1 .. MaxKeyLen}
    \cup UNION {{MakeKey(n, z, 1) : z \in {0, n \div 2, n - 1}} : n \in {1, 3, KEY_SIZE_MAX}}

\* the calls of Spec: keys that pass the checks with a cost up to MaxRunCost,
\* keys that fail them with every work factor
Inputs ==
  {Input(ky, Salt_from_bytes(SaltBytes(1)), wf) :
     ky \in GoodKeys, wf \in {w \in Obtainable : Le(log_rounds(w), U32(MaxRunCost))}}
    \cup {Input(ky, Salt_from_bytes(SaltBytes(sd)), wf) :
            ky \in BadKeys, sd \in {1, 2}, wf \in Obtainable}

(***************************************************************************)
(* State                                                                   *)
(***************************************************************************)
VARIABLES
  pc,           \* per thread: where it is in bcrypt
  key,          \* per thread: the arguments of its call
  salt,
  work_factor,
  state,        \* per thread: bcrypt's local `state`
  datal,        \* per thread: the locals of expandstate_data / expandstate_data0
  datar,
  i,            \* per thread: the index of the P loop, the S-box, or the block
  k,            \* per thread: the index in the S-box, or the pass of the 64
  rounds,       \* per thread: the range 0 .. linear_rounds() of the round loop
  cdata,        \* per thread: bcrypt's local `cdata`
  result,       \* per thread: what its call returned
  ops,          \* per thread: the operations its call made on `state`, in order
  hist,         \* the calls completed so far, each with its result
  arg,          \* the argument of the function under test (function specs)
  ret           \* its result

locals == <<state, datal, datar, i, k, rounds, cdata>>
call == <<pc, key, salt, work_factor, result, ops>>
unit == <<arg, ret>>
vars == <<pc, key, salt, work_factor, state, datal, datar, i, k, rounds, cdata,
          result, ops, hist, arg, ret>>

\* memory not yet written: every word zero
ZeroContext ==
  [ s |-> [b \in 0 .. 3 |-> [n \in 0 .. 255 |-> ZeroWord]],
    p |-> [n \in 0 .. BLF_N + 1 |-> ZeroWord] ]

NoResult == [ok |-> FALSE, err |-> "pending"]
NoValue == [none |-> TRUE]

\* no thread has called anything yet; threads outside `active` never will
ThreadsInit(active) ==
  /\ pc = [t \in Threads |-> IF t \in active THEN "idle" ELSE "off"]
  /\ key = [t \in Threads |-> <<>>]
  /\ salt = [t \in Threads |-> Salt_from_bytes(SaltBytes(0))]
  /\ work_factor = [t \in Threads |-> WorkFactor_EXP[4]]
  /\ state = [t \in Threads |-> ZeroContext]
  /\ datal = [t \in Threads |-> ZeroWord]
  /\ datar = [t \in Threads |-> ZeroWord]
  /\ i = [t \in Threads |-> 0]
  /\ k = [t \in Threads |-> 0]
  /\ rounds = [t \in Threads |-> [start |-> ZeroWord, end |-> ZeroWord]]
  /\ cdata = [t \in Threads |-> [n \in 0 .. 5 |-> ZeroWord]]
  /\ result = [t \in Threads |-> NoResult]
  /\ ops = [t \in Threads |-> <<>>]
  /\ hist = {}

Upd(fn, t, v) == [fn EXCEPT ![t] = v]

(***************************************************************************)
(* bcrypt, one step at a time, by thread t                                 *)
(***************************************************************************)
\* a caller invokes bcrypt(key, salt, work_factor)
Invoke(t, in) ==
  /\ key' = Upd(key, t, in.key)
  /\ salt' = Upd(salt, t, in.salt)
  /\ work_factor' = Upd(work_factor, t, in.work_factor)
  /\ result' = Upd(result, t, NoResult)
  /\ ops' = Upd(ops, t, <<>>)
  /\ pc' = Upd(pc, t, "entry")
  /\ UNCHANGED <<locals, hist, unit>>

\* bcrypt returns res
Return(t, res) ==
  /\ result' = Upd(result, t, res)
  /\ pc' = Upd(pc, t, "done")
  /\ hist' = hist \cup {[input |-> Input(key[t], salt[t], work_factor[t]), result |-> res]}

\* a thread's one call
Call(t) ==
  /\ pc[t] = "idle"
  /\ \E in \in Inputs : Invoke(t, in)

\* a variant of Check: the state is not copied from BLOWFISH_INITIAL, the
\* call goes on with the state the thread's last call left
Check_state_kept(t) ==
  /\ pc[t] = "entry"
  /\ IF bcrypt_check(key[t]) # "none"
     THEN /\ Return(t, Err(bcrypt_check(key[t])))
          /\ UNCHANGED <<key, salt, work_factor, ops, locals, unit>>
     ELSE /\ pc' = Upd(pc, t, "key0")
          /\ UNCHANGED <<key, salt, work_factor, result, ops, hist, unit, locals>>

\* the checks, and `let mut state = BLOWFISH_INITIAL`
Check(t) ==
  /\ pc[t] = "entry"
  /\ IF bcrypt_check(key[t]) # "none"
     THEN /\ Return(t, Err(bcrypt_check(key[t])))
          /\ UNCHANGED <<key, salt, work_factor, ops, locals, unit>>
     ELSE /\ state' = Upd(state, t, BLOWFISH_INITIAL)
          /\ pc' = Upd(pc, t, "key0")
          /\ UNCHANGED <<key, salt, work_factor, result, ops, hist, unit,
                         datal, datar, i, k, rounds, cdata>>

\* a variant of after_site: in the loop the salt is XORed into P before
\* both calls of blowfish_expandstate_data0
after_site_xor_first(site) ==
  CASE site = "key0" -> "data"
    [] site = "data" -> "loop_begin"
    [] site = "r_key" -> "r_xor"
    [] site = "r_xor" -> "r_data0a"
    [] site = "r_data0a" -> "r_data0b"
    [] site = "r_data0b" -> "loop"

\* the statement that follows each call site of bcrypt's body
after_site(site) ==
  CASE site = "key0" -> "data"
    [] site = "data" -> "loop_begin"
    [] site = "r_key" -> "r_data0a"
    [] site = "r_data0a" -> "r_xor"
    [] site = "r_xor" -> "r_data0b"
    [] site = "r_data0b" -> "loop"

\* blowfish_expandstate_key(&mut state, key), before the loop and in it
ExpandKey(t) ==
  /\ pc[t] \in {"key0", "r_key"}
  /\ state' = Upd(state, t, blowfish_expandstate_key(state[t], key[t]))
  /\ ops' = Upd(ops, t, Append(ops[t], "key"))
  /\ pc' = Upd(pc, t, after_site(pc[t]))
  /\ UNCHANGED <<key, salt, work_factor, result, hist, unit,
                 datal, datar, i, k, rounds, cdata>>

\* the frame every loop of the expand-state procedures leaves alone
IterFrame == UNCHANGED <<key, salt, work_factor, result, hist, unit, rounds, cdata>>

\* blowfish_expandstate_data is entered: datal = 0, datar = 0, and its loop
\* for i in (0..BLF_N + 2).step_by(2) runs
DataP(t) ==
  /\ pc[t] = "data"
  /\ \E nx \in {expandstate_data_p_loop(
                   [c |-> state[t], datal |-> ZeroWord, datar |-> ZeroWord],
                   salt[t].be, 0)} :
       /\ state' = Upd(state, t, nx.c)
       /\ datal' = Upd(datal, t, nx.datal)
       /\ datar' = Upd(datar, t, nx.datar)
  /\ i' = Upd(i, t, 0)
  /\ k' = Upd(k, t, 0)
  /\ ops' = Upd(ops, t, Append(ops[t], "data"))
  /\ pc' = Upd(pc, t, "data_s")
  /\ IterFrame

\* for i in 0..4: the loop for k in (0..256).step_by(2) on S-box i, in
\* blowfish_expandstate_data
DataS(t) ==
  /\ pc[t] = "data_s"
  /\ \E nx \in {expandstate_data_s_range(
                   [c |-> state[t], datal |-> datal[t], datar |-> datar[t]],
                   salt[t].be, i[t], 0, 128)} :
       /\ state' = Upd(state, t, nx.c)
       /\ datal' = Upd(datal, t, nx.datal)
       /\ datar' = Upd(datar, t, nx.datar)
  /\ IF i[t] + 1 < 4
     THEN i' = Upd(i, t, i[t] + 1) /\ pc' = pc
     ELSE i' = Upd(i, t, 0) /\ pc' = Upd(pc, t, after_site("data"))
  /\ k' = k
  /\ ops' = ops
  /\ IterFrame

\* for _ in 0..work_factor.linear_rounds(): the range is made
LoopBegin(t) ==
  /\ pc[t] = "loop_begin"
  /\ rounds' = Upd(rounds, t, [start |-> ZeroWord, end |-> linear_rounds(work_factor[t])])
  /\ pc' = Upd(pc, t, "loop")
  /\ UNCHANGED <<key, salt, work_factor, result, ops, hist, unit,
                 state, datal, datar, i, k, cdata>>

\* Range::next: start < end yields start and steps; otherwise the loop ends
range_has_next(r) == Lt(r.start, r.end)

LoopNext(t) ==
  /\ pc[t] = "loop"
  /\ IF range_has_next(rounds[t])
     THEN /\ rounds' = Upd(rounds, t, [rounds[t] EXCEPT !.start = Inc(rounds[t].start)])
          /\ pc' = Upd(pc, t, "r_key")
     ELSE /\ rounds' = rounds
          /\ pc' = Upd(pc, t, "final_begin")
  /\ UNCHANGED <<key, salt, work_factor, result, ops, hist, unit,
                 state, datal, datar, i, k, cdata>>

\* blowfish_expandstate_data0 is entered: datal = 0, datar = 0, and its loop
\* for i in (0..BLF_N + 2).step_by(2) runs
Data0P(t) ==
  /\ pc[t] \in {"r_data0a", "r_data0b"}
  /\ \E nx \in {expandstate_data0_p_loop(
                   [c |-> state[t], datal |-> ZeroWord, datar |-> ZeroWord], 0)} :
       /\ state' = Upd(state, t, nx.c)
       /\ datal' = Upd(datal, t, nx.datal)
       /\ datar' = Upd(datar, t, nx.datar)
  /\ i' = Upd(i, t, 0)
  /\ k' = Upd(k, t, 0)
  /\ ops' = Upd(ops, t, Append(ops[t], "data0"))
  /\ pc' = Upd(pc, t, IF pc[t] = "r_data0a" THEN "data0a_s" ELSE "data0b_s")
  /\ IterFrame

\* for i in 0..4: the loop for k in (0..256).step_by(2) on S-box i, in
\* blowfish_expandstate_data0
Data0S(t) ==
  /\ pc[t] \in {"data0a_s", "data0b_s"}
  /\ \E nx \in {expandstate_data0_s_range(
                   [c |-> state[t], datal |-> datal[t], datar |-> datar[t]], i[t], 0, 128)} :
       /\ state' = Upd(state, t, nx.c)
       /\ datal' = Upd(datal, t, nx.datal)
       /\ datar' = Upd(datar, t, nx.datar)
  /\ IF i[t] + 1 < 4
     THEN i' = Upd(i, t, i[t] + 1) /\ pc' = pc
     ELSE /\ i' = Upd(i, t, 0)
          /\ pc' = Upd(pc, t, after_site(IF pc[t] = "data0a_s"
                                         THEN "r_data0a" ELSE "r_data0b"))
  /\ k' = k
  /\ ops' = ops
  /\ IterFrame

\* for i in 0..(BLF_N + 2) { state.p[i] ^= salt.be[i % 4] }
SaltXor(t) ==
  /\ pc[t] = "r_xor"
  /\ state' = Upd(state, t, bcrypt_salt_xor(state[t], salt[t]))
  /\ ops' = Upd(ops, t, Append(ops[t], "xor"))
  /\ pc' = Upd(pc, t, after_site("r_xor"))
  /\ UNCHANGED <<key, salt, work_factor, result, hist, unit,
                 datal, datar, i, k, rounds, cdata>>

\* let mut cdata = BCRYPT_MESSAGE
FinalBegin(t) ==
  /\ pc[t] = "final_begin"
  /\ cdata' = Upd(cdata, t, BCRYPT_MESSAGE)
  /\ k' = Upd(k, t, 0)
  /\ pc' = Upd(pc, t, "final")
  /\ UNCHANGED <<key, salt, work_factor, result, ops, hist, unit,
                 state, datal, datar, i, rounds>>

\* for _ in 0..64: one pass over the three blocks; k counts the passes
FinalPass(t) ==
  /\ pc[t] = "final"
  /\ cdata' = Upd(cdata, t, bcrypt_encipher_pass(state[t], cdata[t], 0))
  /\ ops' = Upd(ops, t, ops[t] \o <<"enc0", "enc2", "enc4">>)
  /\ IF k[t] + 1 < 64
     THEN k' = Upd(k, t, k[t] + 1) /\ pc' = pc
     ELSE k' = Upd(k, t, 0) /\ pc' = Upd(pc, t, "output")
  /\ UNCHANGED <<key, salt, work_factor, result, hist, unit,
                 state, datal, datar, i, rounds>>

\* the result bytes are written and Ok(result) is returned
Output(t) ==
  /\ pc[t] = "output"
  /\ Return(t, Ok(bcrypt_result(cdata[t])))
  /\ UNCHANGED <<key, salt, work_factor, ops, locals, unit>>

Step(t) ==
  \/ Check(t)
  \/ ExpandKey(t)
  \/ DataP(t)
  \/ DataS(t)
  \/ LoopBegin(t)
  \/ LoopNext(t)
  \/ Data0P(t)
  \/ Data0S(t)
  \/ SaltXor(t)
  \/ FinalBegin(t)
  \/ FinalPass(t)
  \/ Output(t)

UnitOff == arg = NoValue /\ ret = NoValue

(***************************************************************************)
(* Spec: one caller, one call of bcrypt                                    *)
(***************************************************************************)
Init == ThreadsInit({1}) /\ UnitOff
Next == \E t \in Threads : Call(t) \/ Step(t)
Spec == Init /\ [][Next]_vars

(***************************************************************************)
(* ConcSpec: every thread calls bcrypt again and again, the calls of       *)
(* different threads interleaved step by step.  Thread 1 calls with a key  *)
(* that passes the checks and with one that does not; the other threads    *)
(* call with a key that does not.                                          *)
(***************************************************************************)
ConcInputs(t) ==
  IF t = 1
  THEN {Input(MakeKey(3, -1, 1), Salt_from_bytes(SaltBytes(1)), WorkFactor_EXP[4]),
        Input(MakeKey(3, 1, 1), Salt_from_bytes(SaltBytes(1)), WorkFactor_EXP[4])}
  ELSE {Input(MakeKey(KEY_SIZE_MAX + 1, -1, 1), Salt_from_bytes(SaltBytes(2)),
              WorkFactor_EXP[31])}

\* a thread calls bcrypt, for the first time or after a call of its own returned
CallAgain(t) ==
  /\ pc[t] \in {"idle", "done"}
  /\ \E in \in ConcInputs(t) : Invoke(t, in)

ConcInit == ThreadsInit(Threads) /\ UnitOff
ConcNext == \E t \in Threads : CallAgain(t) \/ Step(t)
ConcSpec == ConcInit /\ [][ConcNext]_vars

(***************************************************************************)
(* SaltSpec: Salt::from_bytes, then Salt::to_bytes                         *)
(***************************************************************************)
SaltArrays ==
  {SaltBytes(sd) : sd \in 0 .. MaxSaltSeed}
    \cup {[n \in 0 .. SALT_SIZE - 1 |-> IF n = j THEN v ELSE 0] :
            j \in 0 .. SALT_SIZE - 1, v \in {1, 128, 255}}
SaltInputs == {[bytes |-> b] : b \in SaltArrays}

SaltFromBytes ==
  /\ arg \in SaltInputs
  /\ ret = NoValue
  /\ ret' = [salt |-> Salt_from_bytes(arg.bytes)]
  /\ UNCHANGED <<call, locals, hist, arg>>

SaltToBytes ==
  /\ arg \in SaltInputs
  /\ ret # NoValue
  /\ DOMAIN ret = {"salt"}
  /\ ret' = [salt |-> ret.salt, bytes |-> Salt_to_bytes(ret.salt)]
  /\ UNCHANGED <<call, locals, hist, arg>>

SaltInit == ThreadsInit({}) /\ arg \in SaltInputs /\ ret = NoValue
SaltNext == SaltFromBytes \/ SaltToBytes
SaltSpec == SaltInit /\ [][SaltNext]_vars

(***************************************************************************)
(* WorkFactorSpec: a work factor is obtained from WorkFactor::exp or from  *)
(* a constant, and its log_rounds() and linear_rounds() are read           *)
(***************************************************************************)
WorkFactorRequests ==
  {[exp |-> a] : a \in ExpArgs} \cup {[const |-> n] : n \in DOMAIN WorkFactor_EXP}

CallExp ==
  /\ arg \in {[exp |-> a] : a \in ExpArgs}
  /\ ret = NoValue
  /\ ret' = [got |-> WorkFactor_exp(arg.exp)]
  /\ UNCHANGED <<call, locals, hist, arg>>

TakeConstant ==
  /\ arg \in {[const |-> n] : n \in DOMAIN WorkFactor_EXP}
  /\ ret = NoValue
  /\ ret' = [got |-> Some(WorkFactor_EXP[arg.const])]
  /\ UNCHANGED <<call, locals, hist, arg>>

ReadRounds ==
  /\ arg \in WorkFactorRequests
  /\ ret # NoValue
  /\ DOMAIN ret = {"got"}
  /\ ret.got.some
  /\ ret' = [got |-> ret.got,
             log_rounds |-> log_rounds(ret.got.value),
             linear_rounds |-> linear_rounds(ret.got.value)]
  /\ UNCHANGED <<call, locals, hist, arg>>

WorkFactorInit == ThreadsInit({}) /\ arg \in WorkFactorRequests /\ ret = NoValue
WorkFactorNext == CallExp \/ TakeConstant \/ ReadRounds
WorkFactorSpec == WorkFactorInit /\ [][WorkFactorNext]_vars

(***************************************************************************)
(* KeySpec: blowfish_expandstate_key applied to a state, up to             *)
(* MaxExpandCalls times in a row, with a key that passes bcrypt's checks   *)
(***************************************************************************)
KeyInputs ==
  {[c |-> c, key |-> MakeKey(n, -1, sd)] :
     c \in {BLOWFISH_INITIAL, ZeroContext}, n \in 0 .. KEY_SIZE_MAX, sd \in {1, 2}}

ApplyExpandKey ==
  /\ arg \in KeyInputs
  /\ ret = NoValue
  /\ ret' = [c |-> blowfish_expandstate_key(arg.c, arg.key), calls |-> 1]
  /\ UNCHANGED <<call, locals, hist, arg>>

ApplyExpandKeyAgain ==
  /\ arg \in KeyInputs
  /\ ret # NoValue
  /\ ret.calls < MaxExpandCalls
  /\ ret' = [c |-> blowfish_expandstate_key(ret.c, arg.key), calls |-> ret.calls + 1]
  /\ UNCHANGED <<call, locals, hist, arg>>

KeyInit == ThreadsInit({}) /\ arg \in KeyInputs /\ ret = NoValue
KeyNext == ApplyExpandKey \/ ApplyExpandKeyAgain
KeySpec == KeyInit /\ [][KeyNext]_vars

(***************************************************************************)
(* DataSpec: blowfish_expandstate_data, one loop iteration at a time, on   *)
(* the initial state and on the state bcrypt gives it (the initial state   *)
(* after blowfish_expandstate_key)                                         *)
(***************************************************************************)
DataInputs ==
  {[c |-> c, data |-> Salt_from_bytes(SaltBytes(sd)).be] :
     c \in {BLOWFISH_INITIAL,
            blowfish_expandstate_key(BLOWFISH_INITIAL, MakeKey(5, -1, 1))},
     sd \in {1, 2}}

\* the procedure is entered: let mut datal = 0; let mut datar = 0
DataEnter ==
  /\ arg \in DataInputs
  /\ ret = NoValue
  /\ ret' = [c |-> arg.c, datal |-> ZeroWord, datar |-> ZeroWord,
             at |-> "p", i |-> 0, k |-> 0]
  /\ UNCHANGED <<call, locals, hist, arg>>

\* one iteration of for i in (0..BLF_N + 2).step_by(2)
DataStepP ==
  /\ arg \in DataInputs
  /\ ret # NoValue
  /\ ret.at = "p"
  /\ \E nx \in {expandstate_data_p(ret.c, ret.datal, ret.datar, arg.data, ret.i)} :
       ret' = [c |-> nx.c, datal |-> nx.datal, datar |-> nx.datar,
               at |-> IF ret.i + 2 < BLF_N + 2 THEN "p" ELSE "s",
               i |-> IF ret.i + 2 < BLF_N + 2 THEN ret.i + 2 ELSE 0,
               k |-> 0]
  /\ UNCHANGED <<call, locals, hist, arg>>

\* one iteration of for i in 0..4, for k in (0..256).step_by(2)
DataStepS ==
  /\ arg \in DataInputs
  /\ ret # NoValue
  /\ ret.at = "s"
  /\ \E nx \in {expandstate_data_s(ret.c, ret.datal, ret.datar, arg.data, ret.i, ret.k)} :
       ret' = [c |-> nx.c, datal |-> nx.datal, datar |-> nx.datar,
               at |-> IF ret.k + 2 < 256 \/ ret.i + 1 < 4 THEN "s" ELSE "end",
               i |-> IF ret.k + 2 < 256 THEN ret.i ELSE ret.i + 1,
               k |-> IF ret.k + 2 < 256 THEN ret.k + 2 ELSE 0]
  /\ UNCHANGED <<call, locals, hist, arg>>

DataInit == ThreadsInit({}) /\ arg \in DataInputs /\ ret = NoValue
DataNext == DataEnter \/ DataStepP \/ DataStepS
DataSpec == DataInit /\ [][DataNext]_vars

(***************************************************************************)
(* Properties                                                              *)
(***************************************************************************)
Returned(t) == pc[t] = "done"
Failed(t, e) == Returned(t) /\ ~result[t].ok /\ result[t].err = e
Succeeded(t) == Returned(t) /\ result[t].ok
HasZero(ky) == \E j \in DOMAIN ky : ky[j] = 0
\* the thread is inside bcrypt, past the two checks
Running(t) == pc[t] \notin {"off", "idle", "entry", "done"}
Count(seq, x) == Cardinality({n \in 1 .. Len(seq) : seq[n] = x})

\* C1: the outcome of bcrypt is decided by the key alone, the length check
\* before the zero-byte check: Err(Length) exactly when the key is longer
\* than 72 bytes (with or without a zero byte), Err(ZeroByte) exactly when it
\* has at most 72 bytes and one of them is zero, and otherwise Ok with a
\* hash of 23 bytes; a call past the two checks has a key that passes them,
\* always has a next step, and returns nothing but Ok.
C1_Outcome ==
  \A t \in Threads :
    /\ Returned(t) =>
         /\ Failed(t, "Length") <=> Cardinality(DOMAIN key[t]) > 72
         /\ Failed(t, "ZeroByte") <=> (Cardinality(DOMAIN key[t]) <= 72 /\ HasZero(key[t]))
         /\ Succeeded(t) <=> (Cardinality(DOMAIN key[t]) <= 72 /\ ~HasZero(key[t]))
         /\ Succeeded(t) =>
              /\ DOMAIN result[t].value = 0 .. 22
              /\ \A n \in 0 .. 22 : result[t].value[n] \in Byte
    /\ Running(t) =>
         /\ Cardinality(DOMAIN key[t]) <= 72 /\ ~HasZero(key[t])
         /\ ENABLED Step(t)

C1_Witness ==
  \E t \in Threads :
    Succeeded(t) /\ Cardinality(DOMAIN key[t]) = 72 /\ DOMAIN result[t].value = 0 .. 22

\* C2, as stated: every key with a zero byte gives Err(ZeroByte), whatever
\* its length.
C2_ZeroByteAnyLength ==
  \A t \in Threads : (Returned(t) /\ HasZero(key[t])) => Failed(t, "ZeroByte")

\* C2, amended: every key of at most 72 bytes with a zero byte gives
\* Err(ZeroByte), with every salt and work factor; a longer key gives
\* Err(Length) also when it has a zero byte.
C2_ZeroByteWithinLimit ==
  \A t \in Threads :
    (Returned(t) /\ HasZero(key[t])) =>
      IF Cardinality(DOMAIN key[t]) <= 72
      THEN Failed(t, "ZeroByte")
      ELSE Failed(t, "Length")

C2_Witness ==
  \E t \in Threads :
    /\ Failed(t, "ZeroByte")
    /\ Cardinality(DOMAIN key[t]) = 72
    /\ key[t][71] = 0
    /\ log_rounds(work_factor[t]) = <<0, 31>>

\* half of a u32 given as limbs, as a number
HalfOf(w) == w[1] * 32768 + (w[2] \div 2)

\* C5: with every work factor a call can carry, of cost c in 4 .. 31,
\* linear_rounds() is the number 2^c (even, and its half is 2^(c-1); for
\* c = 31 the limbs of 2147483648), and the loop over 0 .. linear_rounds()
\* has made 2^c iterations when it is left, and never more.
C5_Rounds ==
  \A t \in Threads :
    LET c == log_rounds(work_factor[t])[2]
        lin == linear_rounds(work_factor[t])
    IN  /\ log_rounds(work_factor[t])[1] = 0 /\ c \in 4 .. 31
        /\ lin[2] % 2 = 0 /\ HalfOf(lin) = 2 ^ (c - 1)
        /\ c = 31 => lin = <<32768, 0>>
        /\ Running(t) =>
             /\ pc[t] \notin {"key0", "data", "data_s", "loop_begin"}
                  => rounds[t].end = lin
             /\ Count(ops[t], "xor") <= 2 ^ c
        /\ (pc[t] \in {"final_begin", "final", "output"} \/ Succeeded(t)) =>
             /\ Count(ops[t], "xor") = 2 ^ c
             /\ rounds[t].start = lin

C5_Witness ==
  \E t \in Threads :
    /\ pc[t] = "final_begin"
    /\ log_rounds(work_factor[t]) = <<0, 4>>
    /\ Count(ops[t], "xor") = 16

\* the n-th operation on the state of a call with cost c that passes the checks
ExpectedOp(c, n) ==
  IF n = 1 THEN "key"
  ELSE IF n = 2 THEN "data"
  ELSE IF n <= 2 + 4 * (2 ^ c)
       THEN <<"key", "data0", "xor", "data0">>[((n - 3) % 4) + 1]
  ELSE <<"enc0", "enc2", "enc4">>[((n - 3 - 4 * (2 ^ c)) % 3) + 1]

C7_Order(t) ==
  LET c == log_rounds(work_factor[t])[2]
  IN  /\ \A n \in 1 .. Len(ops[t]) : ops[t][n] = ExpectedOp(c, n)
      /\ Running(t) => Len(ops[t]) <= 2 + 4 * (2 ^ c) + 3 * 64
      /\ Succeeded(t) =>
           /\ Len(ops[t]) = 2 + 4 * (2 ^ c) + 3 * 64
           /\ Count(ops[t], "key") = (2 ^ c) + 1
           /\ Count(ops[t], "data") = 1
           /\ Count(ops[t], "data0") = 2 * (2 ^ c)
           /\ Count(ops[t], "xor") = 2 ^ c
      /\ (Returned(t) /\ ~result[t].ok) => ops[t] = <<>>

\* C7: the operations of a call that passes the checks are, in this order,
\* expandstate_key, expandstate_data, then 2^c times (expandstate_key,
\* expandstate_data0, the XOR of the salt into P, expandstate_data0), then
\* 64 times the blocks 0, 2, 4 enciphered; the state does not change from
\* the end of the loop on; a call that fails a check does none of them and
\* leaves the state alone.
C7_Operations ==
  [][\A t \in Threads :
       /\ C7_Order(t)'
       /\ pc[t] \in {"final_begin", "final", "output"} => state'[t] = state[t]
       /\ (pc[t] = "entry" /\ Returned(t)' /\ ~result'[t].ok)
            => (state'[t] = state[t] /\ ops'[t] = <<>>)]_vars

C7_Witness ==
  \E t \in Threads :
    /\ Succeeded(t)
    /\ Len(ops[t]) = 2 + 4 * 16 + 192
    /\ ops[t][3] = "key" /\ ops[t][6] = "data0" /\ ops[t][67] = "enc0"

\* the big-endian u32, as limbs, of four bytes
BigEndian(b0, b1, b2, b3) == <<256 * b0 + b1, 256 * b2 + b3>>

\* C8: the 23 bytes returned are the first 23 of the big-endian bytes of
\* the six words of cdata: bytes 4j .. 4j+3 make word j for j = 0 .. 4, and
\* bytes 20 .. 22 are the three most significant bytes of word 5, whose
\* least significant byte is not returned.
C8_Serialisation ==
  \A t \in Threads :
    Succeeded(t) =>
      LET h == result[t].value
          C == cdata[t]
      IN  /\ DOMAIN h = 0 .. 22
          /\ \A j \in 0 .. 4 : BigEndian(h[4 * j], h[4 * j + 1], h[4 * j + 2], h[4 * j + 3]) = C[j]
          /\ BigEndian(h[20], h[21], h[22], C[5][2] % 256) = C[5]

C8_Witness ==
  \E t \in Threads :
    /\ Succeeded(t)
    /\ key[t] = <<>>
    /\ result[t].value[22] = cdata[t][5][2] \div 256
    /\ result[t].value[22] # cdata[t][5][2] % 256

\* C3: Salt::from_bytes is defined for every 16-byte array b and keeps all
\* of it: word w of the salt is the big-endian u32 of bytes 4w .. 4w+3,
\* to_bytes writes every word back most significant byte first in the same
\* place, so that from_bytes(b).to_bytes() = b, and no other array gives
\* the same salt.
C3_RoundTrip ==
  /\ ret = NoValue => ENABLED SaltFromBytes
  /\ ret # NoValue =>
       /\ DOMAIN ret.salt.be = 0 .. 3
       /\ \A w \in 0 .. 3 :
            ret.salt.be[w] = BigEndian(arg.bytes[4 * w], arg.bytes[4 * w + 1],
                                       arg.bytes[4 * w + 2], arg.bytes[4 * w + 3])
       /\ \A other \in SaltInputs :
            Salt_from_bytes(other.bytes) = ret.salt => other.bytes = arg.bytes
       /\ ENABLED SaltToBytes \/ "bytes" \in DOMAIN ret
       /\ "bytes" \in DOMAIN ret =>
            /\ ret.bytes = arg.bytes
            /\ \A w \in 0 .. 3 :
                 /\ ret.bytes[4 * w] = ret.salt.be[w][1] \div 256
                 /\ ret.bytes[4 * w + 1] = ret.salt.be[w][1] % 256
                 /\ ret.bytes[4 * w + 2] = ret.salt.be[w][2] \div 256
                 /\ ret.bytes[4 * w + 3] = ret.salt.be[w][2] % 256

C3_Witness ==
  /\ ret # NoValue
  /\ "bytes" \in DOMAIN ret
  /\ ret.bytes = arg.bytes
  /\ arg.bytes = SaltBytes(1)
  /\ ret.salt.be[0] = <<1 * 256 + 38, 75 * 256 + 112>>

\* C4: WorkFactor::exp(c) gives a work factor exactly when c is one of
\* 4 .. 31 as a u32 (no c of 2^16 or more, whatever its low bits), and the
\* work factor's log_rounds() is c; the constant EXPn is the work factor of
\* exp(n); so every work factor obtained has log_rounds() in 4 .. 31.
C4_Exp ==
  ret # NoValue =>
    /\ "exp" \in DOMAIN arg =>
         /\ ret.got.some <=> (arg.exp[1] = 0 /\ arg.exp[2] >= 4 /\ arg.exp[2] <= 31)
         /\ ret.got.some => log_rounds(ret.got.value) = arg.exp
    /\ "const" \in DOMAIN arg =>
         /\ ret.got.some
         /\ log_rounds(ret.got.value) = <<0, arg.const>>
         /\ ret.got = WorkFactor_exp(<<0, arg.const>>)
    /\ ret.got.some =>
         /\ log_rounds(ret.got.value)[1] = 0
         /\ log_rounds(ret.got.value)[2] \in 4 .. 31
    /\ "log_rounds" \in DOMAIN ret => ret.log_rounds = log_rounds(ret.got.value)

C4_Witness ==
  /\ ret # NoValue
  /\ "exp" \in DOMAIN arg
  /\ arg.exp = <<0, 4>>
  /\ "log_rounds" \in DOMAIN ret
  /\ ret.log_rounds = <<0, 4>>

\* byte j of the stream key[0 .. n-1], 0x00, key[0 .. n-1], 0x00, ...
Stream(ky, j) ==
  LET n == Cardinality(DOMAIN ky)
  IN  IF j % (n + 1) = n THEN 0 ELSE ky[j % (n + 1)]

StreamWord(ky, w) ==
  BigEndian(Stream(ky, 4 * w), Stream(ky, 4 * w + 1),
            Stream(ky, 4 * w + 2), Stream(ky, 4 * w + 3))

\* C9: every call of blowfish_expandstate_key, on whatever state and with
\* a key of 0 .. 72 bytes none of them zero, replaces P[i] for i = 0 .. 17
\* by P[i] XOR the big-endian word of bytes 4i .. 4i+3 of the stream of the
\* key, read from position 0 again in every call; it takes 72 bytes from
\* the cycle; it leaves the S-boxes as they were; with the empty key it
\* leaves P as it was.
C9_ExpandKey ==
  [][ret' # ret =>
       LET before == IF ret = NoValue THEN arg.c ELSE ret.c
           after == ret'.c
           n == Cardinality(DOMAIN arg.key)
       IN  /\ n \in 0 .. 72 /\ ~HasZero(arg.key)
           /\ DOMAIN after.p = 0 .. 17
           /\ \A w \in 0 .. 17 : after.p[w] = Xor[before.p[w], StreamWord(arg.key, w)]
           /\ after.s = before.s
           /\ n = 0 => after.p = before.p
           /\ expandstate_key_loop(
                [c |-> before, key_cycle |-> [key |-> arg.key, index |-> 0]], 0
              ).key_cycle.index = 72 % (n + 1)]_vars

C9_Witness ==
  /\ ret # NoValue
  /\ ret.calls = 2
  /\ Cardinality(DOMAIN arg.key) = 5
  /\ arg.c = BLOWFISH_INITIAL
  /\ StreamWord(arg.key, 1) = BigEndian(arg.key[4], 0, arg.key[0], arg.key[1])
  /\ ret.c.p = arg.c.p
  /\ ret.c.s = arg.c.s

\* C10: in blowfish_expandstate_data the pair (L, R) starts as (0, 0); in
\* the P pass at i = 0, 2, .., 16 the encipher is given L XOR data[i mod 4]
\* and R XOR data[(i+1) mod 4], in the S pass at box j = 0 .. 3 and
\* k = 0, 2, .., 254 it is given L XOR data[(k+2) mod 4] and
\* R XOR data[((k+2) mod 4) + 1]; every index into data is in 0 .. 3; the
\* output goes to (P[i], P[i+1]) or (S[j][k], S[j][k+1]), nothing else
\* changes, and it is the next (L, R), also from the P pass into the S pass
\* and from one S-box into the next; the iterations made one after the
\* other give what the whole procedure gives.
C10_DataXor ==
  [][ret' # ret =>
       IF ret = NoValue
       THEN ret'.datal = ZeroWord /\ ret'.datar = ZeroWord /\ ret'.c = arg.c
                 /\ ret'.at = "p" /\ ret'.i = 0
       ELSE
         LET d == arg.data
             ip == ret.i
             kk == ret.k
             xl == IF ret.at = "p" THEN ip % 4 ELSE (kk + 2) % 4
             xr == IF ret.at = "p" THEN (ip + 1) % 4 ELSE ((kk + 2) % 4) + 1
             out == blowfish_encipher(ret.c, Xor[ret.datal, d[xl]], Xor[ret.datar, d[xr]])
         IN  /\ xl \in 0 .. 3 /\ xr \in 0 .. 3 /\ DOMAIN d = 0 .. 3
             /\ ret'.datal = out[1] /\ ret'.datar = out[2]
             /\ ret.at = "p" =>
                  /\ ip \in {0, 2, 4, 6, 8, 10, 12, 14, 16}
                  /\ ret'.c = [ret.c EXCEPT !.p[ip] = out[1], !.p[ip + 1] = out[2]]
                  /\ IF ip = 16 THEN ret'.at = "s" /\ ret'.i = 0 /\ ret'.k = 0
                                ELSE ret'.at = "p" /\ ret'.i = ip + 2
             /\ ret.at = "s" =>
                  /\ ip \in 0 .. 3 /\ kk \in 0 .. 254 /\ kk % 2 = 0
                  /\ ret'.c = [ret.c EXCEPT !.s[ip][kk] = out[1], !.s[ip][kk + 1] = out[2]]
                  /\ IF kk < 254 THEN ret'.at = "s" /\ ret'.i = ip /\ ret'.k = kk + 2
                     ELSE IF ip < 3 THEN ret'.at = "s" /\ ret'.i = ip + 1 /\ ret'.k = 0
                     ELSE ret'.at = "end"
             /\ ret'.at = "end" => ret'.c = blowfish_expandstate_data(arg.c, arg.data)]_vars

C10_Witness ==
  /\ ret # NoValue
  /\ ret.at = "s" /\ ret.i = 1 /\ ret.k = 2
  /\ ret.c.s[1][0] = ret.datal /\ ret.c.s[1][1] = ret.datar
  /\ arg.c # BLOWFISH_INITIAL
  /\ arg.data[0] # arg.data[2]

\* the entry of hist for the call thread t is in
OwnCall(t) == Input(key[t], salt[t], work_factor[t])

====
